---- MODULE Spec2Model ----
(***************************************************************************)
(* create-varset.py: management of the global priority variable set        *)
(* (varset) of the organizations of a Terraform Enterprise instance.       *)
(*                                                                         *)
(* The specifications:                                                     *)
(*   Spec        one organization's task, process_org, request by request, *)
(*               against a model of the remote API (the varsets of the     *)
(*               organization and the variables of the target varset);     *)
(*   SpecPool    the __main__ block: the delete confirmation, the thread   *)
(*               pool running one process_org task per organization, the   *)
(*               as_completed loop and the CSV report;                     *)
(*   SpecList    list_orgs, page by page;                                  *)
(*   SpecLocator get_global_priority_varset_id over the listings of the    *)
(*               varsets of an organization;                               *)
(*   SpecRetry   one request inside the Retry of the session;              *)
(*   SpecLock    the worker threads inside log_report.                     *)
(***************************************************************************)
EXTENDS Integers, Sequences, FiniteSets, TLC

VARIABLES
    \* ---- configuration (argparse + load_config), fixed during a run
    mode,            \* args.mode
    dry_run,         \* args.dry_run
    varset_vars,     \* config["varset_vars"]: the desired variables, a list
    \* ---- the remote API's state for the organization of Spec
    remote_varsets,  \* the organization's varsets, in listing order
    remote_vars,     \* the variables stored in the target varset
    \* ---- process_org's position and locals
    pc,
    varset_id,       \* local varset_id (None until located or created)
    current_vars,    \* check_diffs_variables_in_varset: current_vars as fetched
    idx,             \* position of the running for loop
    run,             \* which invocation of the script this is
    \* ---- observations
    calls,           \* the HTTP requests sent on the session, in order
    actions,         \* the calls of add_/update_/delete_variable, in order
    prev_calls,      \* the requests of the previous invocation
    report_rows,     \* the module's report_rows list
    \* ---- SpecPool: the __main__ block
    organizations,   \* the list of organizations to process
    max_workers,     \* args.max_workers
    confirm,         \* the answer typed at the delete confirmation
    main_pc,         \* position of the main thread
    task,            \* task[i]: state of the future of organizations[i]
    started,         \* started[i]: how many times task i was started
    ended,           \* ended[i]: how many times task i ended
    collected,       \* the futures as_completed has yielded so far
    csv_rows,        \* the rows written to the CSV report file
    flushes,         \* how many times the report file was written
    \* ---- SpecList: list_orgs against a paginated listing
    server_orgs,     \* the organizations of the instance, in listing order
    page_size,       \* the number of organizations the server puts on a page
    links_end,       \* the first page whose links carry no next
    orgs,            \* list_orgs: orgs
    orgs_page,       \* list_orgs: page_number
    list_pc,         \* position of list_orgs
    \* ---- SpecRetry: one request on the session, inside the Retry adapter
    req_method,      \* the HTTP method of the request
    retry,           \* the Retry object: the retries left, by kind
    sends,           \* how many times the request was put on the wire
    reply,           \* what the last send came back with
    send_pc,         \* position of the request
    \* ---- SpecLock: the worker threads inside log_report
    report_lock,     \* the thread holding report_lock, 0 when it is free
    thread_pc,       \* thread_pc[i]: position of worker thread i
    recorded         \* recorded[i]: the calls of log_report thread i completed

cfg_vars    == <<mode, dry_run, varset_vars>>
remote_state == <<remote_varsets, remote_vars>>
task_vars   == <<pc, varset_id, current_vars, idx, run>>
obs_vars    == <<calls, actions, prev_calls, report_rows>>
pool_vars   == <<organizations, max_workers, confirm, main_pc, task, started,
                 ended, collected, csv_rows, flushes>>
list_vars   == <<server_orgs, page_size, links_end, orgs, orgs_page, list_pc>>
retry_vars  == <<req_method, retry, sends, reply, send_pc>>
lock_vars   == <<report_lock, thread_pc, recorded>>
side_vars   == <<list_vars, retry_vars, lock_vars>>
vars == <<cfg_vars, remote_state, task_vars, obs_vars, pool_vars, side_vars>>

----------------------------------------------------------------------------
(* Bounds of the model *)

\* longest desired list and longest initial remote variable list
MaxVars == 2
\* number of varsets the server puts on one page of a varset listing
PageLen == 2
\* number of successive invocations of the script on the organization
MaxRuns == 2
\* longest organization list of SpecPool
MaxOrgs == 2
\* largest --max-workers of SpecPool
MaxWorkers == 2
\* most report rows one task of SpecPool appends
MaxTaskRows == 1

----------------------------------------------------------------------------
(* Values *)

\* Python's None
None == "None"

\* An optional dict entry is a sequence: <<>> when the key is missing (or the
\* JSON value is null), <<v>> when it is present with value v.
Missing == <<>>
Present(v) == <<v>>

\* dict.get(key, default)
Get(opt, default) == IF opt = Missing THEN default ELSE opt[1]

Keys == {"a", "b", "c"}
Fields == {"value", "description", "sensitive", "category", "hcl"}

\* the defaults of add_variable's and update_variable's payload
DefaultOf(f) ==
    CASE f = "value"       -> ""
      [] f = "description" -> ""
      [] f = "sensitive"   -> FALSE
      [] f = "category"    -> "terraform"
      [] f = "hcl"         -> FALSE

\* one non-default value per field, for the inputs
OtherOf(f) ==
    CASE f = "value"       -> "1"
      [] f = "description" -> "d"
      [] f = "sensitive"   -> TRUE
      [] f = "category"    -> "env"
      [] f = "hcl"         -> TRUE

\* config["varset_name"] and the name of some other varset
varset_name == "priority-vars"
other_name  == "other-vars"
org_name    == "org1"

----------------------------------------------------------------------------
(* Desired variables (config["varset_vars"]) and remote variables *)

\* A desired variable with every optional key given, set to its default.
BaseDesired(k) ==
    [key |-> k, value |-> Present(""), description |-> Present(""),
     sensitive |-> Present(FALSE), category |-> Present("terraform"),
     hcl |-> Present(FALSE)]

\* The desired variables of key k the inputs draw from: the base one, the
\* base one with one key left out or set to a non-default value, and the
\* sensitive one with a value.
\* A sensitive desired variable with a value of its own.
SecretDesired(k) ==
    [BaseDesired(k) EXCEPT !.sensitive = Present(TRUE),
                           !.value = Present(OtherOf("value"))]

DesiredOf(k) ==
    {BaseDesired(k), SecretDesired(k)} \cup
    UNION {{[BaseDesired(k) EXCEPT ![f] = x] :
                x \in {Missing, Present(OtherOf(f))}} : f \in Fields}

\* A variable as the server stores it.
BaseRemote(k) ==
    [id |-> 0, key |-> k, value |-> "", description |-> "",
     sensitive |-> FALSE, category |-> "terraform", hcl |-> FALSE]

RemoteOf(k) ==
    {BaseRemote(k)} \cup {[BaseRemote(k) EXCEPT ![f] = OtherOf(f)] : f \in Fields}

\* Key "a" takes every variant; the other keys take the base variant only.
DesiredEntries == DesiredOf("a") \cup {BaseDesired(k) : k \in Keys \ {"a"}}
RemoteEntries  == RemoteOf("a") \cup {BaseRemote(k) : k \in Keys \ {"a"}}

UniqueKeys(list) ==
    \A i, j \in 1..Len(list) : list[i].key = list[j].key => i = j

\* The desired lists: at most MaxVars entries, keys unique.
DesiredLists ==
    UNION {{s \in [1..n -> DesiredEntries] : UniqueKeys(s)} : n \in 0..MaxVars}

\* The initial remote lists: the server numbers the variables.
RemoteLists ==
    UNION {{[i \in 1..n |-> [s[i] EXCEPT !.id = i]] :
               s \in {t \in [1..n -> RemoteEntries] : UniqueKeys(t)}} :
           n \in 0..MaxVars}

\* Lists of base variables only: the inputs of the modes that do not look at
\* the attributes (create never reads the remote variables, delete reads
\* neither list).
PlainDesiredLists ==
    {s \in DesiredLists : \A i \in 1..Len(s) : s[i] = BaseDesired(s[i].key)}

PlainRemoteLists ==
    {s \in RemoteLists :
        \A i \in 1..Len(s) : s[i] = [BaseRemote(s[i].key) EXCEPT !.id = i]}

\* The varsets of an organization: the target, one of the same name that is
\* not a priority varset, and unrelated ones.
Varset(id, name, global, priority) ==
    [id |-> id, name |-> name, global |-> global, priority |-> priority]

TargetVarset  == Varset("varset-1", varset_name, TRUE, TRUE)
NonPriority   == Varset("varset-2", varset_name, TRUE, FALSE)
OtherVarset1  == Varset("varset-3", other_name, TRUE, TRUE)
OtherVarset2  == Varset("varset-4", other_name, FALSE, FALSE)
NewVarsetId   == "varset-5"

VarsetLists ==
    {<<>>, <<NonPriority>>, <<TargetVarset>>,
     <<OtherVarset1, OtherVarset2, TargetVarset>>}

HasTarget(varsets) == \E i \in 1..Len(varsets) : varsets[i].id = TargetVarset.id

NameTakenIn(varsets) == \E i \in 1..Len(varsets) : varsets[i].name = varset_name

\* GET varsets/{id}/relationships/vars: a sensitive variable's value is not
\* readable (null); every other attribute is returned as stored.
ApiView(e) ==
    [id |-> e.id,
     attributes |->
        [key |-> e.key,
         value |-> IF e.sensitive THEN Missing ELSE Present(e.value),
         description |-> Present(e.description),
         sensitive |-> Present(e.sensitive),
         category |-> Present(e.category),
         hcl |-> Present(e.hcl)]]

ApiList(stored) == [i \in 1..Len(stored) |-> ApiView(stored[i])]

----------------------------------------------------------------------------
(* Responses of the session *)

\* A request ends with a response, or raises requests' RequestException.
Exc == [exc |-> TRUE, status_code |-> 0, detail |-> ""]
Status(code) == [exc |-> FALSE, status_code |-> code, detail |-> ""]
NameTaken ==
    [exc |-> FALSE, status_code |-> 422, detail |-> "Name has already been taken"]

\* response.raise_for_status(): a 4xx or 5xx status raises HTTPError, a
\* RequestException.
Raises(resp) == resp.exc \/ resp.status_code >= 400

\* The responses to a request whose success status is `code`: the success
\* when the server can carry the request out, and the failures.
Responses(code, possible, failures) ==
    (IF possible THEN {Status(code)} ELSE {}) \cup failures

IsSuccess(resp, code) == ~resp.exc /\ resp.status_code = code

\* how a request whose success status is `code` ended: with the success, with
\* the name conflict, or with another status or an exception
Outcome(resp, code) ==
    IF IsSuccess(resp, code) THEN "ok"
    ELSE IF resp = NameTaken THEN "conflict"
    ELSE "failed"

----------------------------------------------------------------------------
(* The report and the observations *)

\* log_report: one row (the message column is left out)
log_report(org, action, vid, variable, status) ==
    [org |-> org, action |-> action,
     varset_id |-> IF vid = None THEN "" ELSE vid,
     variable |-> IF variable = None THEN "" ELSE variable,
     status |-> status]

\* one request sent on the session
Call(method, kind, key, id, outcome) ==
    [method |-> method, kind |-> kind, key |-> key, id |-> id,
     outcome |-> outcome]

\* one call of add_variable, update_variable or delete_variable
Action(kind, key) == [kind |-> kind, key |-> key]

Effect(cs, rs) == [calls |-> cs, rows |-> rs]

----------------------------------------------------------------------------
(* get_global_priority_varset_id *)

Min(S) == CHOOSE x \in S : \A y \in S : x <= y
Max(S) == CHOOSE x \in S : \A y \in S : x >= y

\* the test of one listed varset, without the test of priority
Matches_any_priority(varset) ==
    varset.name = varset_name /\ varset.global

\* the test of one listed varset
Matches(varset) ==
    varset.name = varset_name /\ varset.global /\ varset.priority

\* The loop from page page_number on. The server serves the varsets in pages
\* of PageLen and gives a next link while varsets remain; the request of page
\* fail_at raises (0: no request fails). The result: the id found or None,
\* and the number of page requests sent.
RECURSIVE locate_from(_, _, _)
locate_from(varsets, page_number, fail_at) ==
    IF page_number = fail_at
    THEN [id |-> None, gets |-> page_number, failed |-> TRUE]
    ELSE LET lo   == (page_number - 1) * PageLen + 1
             hi   == IF page_number * PageLen < Len(varsets)
                     THEN page_number * PageLen ELSE Len(varsets)
             hits == {i \in lo..hi : Matches(varsets[i])}
         IN  IF hits # {}
             THEN [id |-> varsets[Min(hits)].id, gets |-> page_number,
                   failed |-> FALSE]
             ELSE IF hi < Len(varsets)
                  THEN locate_from(varsets, page_number + 1, fail_at)
                  ELSE [id |-> None, gets |-> page_number, failed |-> FALSE]

get_global_priority_varset_id(varsets, fail_at) ==
    locate_from(varsets, 1, fail_at)

\* the number of pages of a listing (an empty listing has one, empty, page)
NumPages(varsets) ==
    IF Len(varsets) = 0 THEN 1 ELSE (Len(varsets) + PageLen - 1) \div PageLen

\* the page requests a locator result stands for
LocatorCalls(found) ==
    [n \in 1..found.gets |->
        Call("GET", "list_varsets", "", n,
             IF found.failed /\ n = found.gets THEN "failed" ELSE "ok")]

----------------------------------------------------------------------------
(* check_diffs_variables_in_varset: the dictionaries and the comparison *)

\* key in current_dict
in_current(cv, key) == \E i \in 1..Len(cv) : cv[i].attributes.key = key

\* current_dict.get(key), for a key of current_dict: a later list entry
\* replaces an earlier one of the same key
current_get(cv, key) ==
    cv[Max({i \in 1..Len(cv) : cv[i].attributes.key = key})]

\* key in desired_dict
in_desired(dv, key) == \E i \in 1..Len(dv) : dv[i].key = key

\* the keys of current_dict, in the dictionary's (first insertion) order
RECURSIVE dict_keys(_)
dict_keys(cv) ==
    IF cv = <<>> THEN <<>>
    ELSE LET front == dict_keys(SubSeq(cv, 1, Len(cv) - 1))
             k     == cv[Len(cv)].attributes.key
         IN  IF \E i \in 1..Len(front) : front[i] = k
             THEN front ELSE Append(front, k)

\* the second loop: the keys of current_dict that are not in desired_dict
RECURSIVE keep_missing(_, _)
keep_missing(ks, dv) ==
    IF ks = <<>> THEN <<>>
    ELSE IF in_desired(dv, Head(ks))
         THEN keep_missing(Tail(ks), dv)
         ELSE <<Head(ks)>> \o keep_missing(Tail(ks), dv)

to_delete(cv, dv) == keep_missing(dict_keys(cv), dv)

\* needs_update that compares the value only when the API returned one
needs_update_readable_value(desired, current_attrs) ==
    \/ current_attrs.value # Missing /\ desired.value # current_attrs.value
    \/ Get(desired.description, "") # Get(current_attrs.description, "")
    \/ Get(desired.sensitive, FALSE) # Get(current_attrs.sensitive, FALSE)
    \/ Get(desired.category, "terraform") # Get(current_attrs.category, "terraform")
    \/ Get(desired.hcl, FALSE) # Get(current_attrs.hcl, FALSE)

\* needs_update, for a desired variable that has a "value" key:
\* desired["value"] is compared with current_attrs.get("value"), which is
\* None for an unreadable value
needs_update(desired, current_attrs) ==
    \/ desired.value # current_attrs.value
    \/ Get(desired.description, "") # Get(current_attrs.description, "")
    \/ Get(desired.sensitive, FALSE) # Get(current_attrs.sensitive, FALSE)
    \/ Get(desired.category, "terraform") # Get(current_attrs.category, "terraform")
    \/ Get(desired.hcl, FALSE) # Get(current_attrs.hcl, FALSE)

\* desired["value"] raises KeyError when the key is missing
raises_key_error(desired) == desired.value = Missing

\* the attributes of add_variable's and update_variable's payload
payload(var) ==
    [key |-> var.key,
     value |-> Get(var.value, ""),
     description |-> Get(var.description, ""),
     sensitive |-> Get(var.sensitive, FALSE),
     category |-> Get(var.category, "terraform"),
     hcl |-> Get(var.hcl, FALSE)]

----------------------------------------------------------------------------
(* The action functions: what each sends and records, given the response *)

\* created, testing for status 200 instead of 201
created_on_200(resp) == ~resp.exc /\ resp.status_code = 200

\* created, taking the 422 conflict for a creation too
created_or_conflict(resp) == ~resp.exc /\ resp.status_code \in {201, 422}

\* create_global_priority_varset, live: the branch that adds the variables
created(resp) == ~resp.exc /\ resp.status_code = 201

\* create_global_priority_varset, live: the rows of the request's outcome
create_varset_rows(org, resp, new_id) ==
    IF resp.exc
    THEN <<log_report(org, "create_varset", None, None, "error")>>
    ELSE IF resp.status_code = 201
    THEN <<log_report(org, "create_varset", new_id, None, "success")>>
    ELSE IF resp.status_code = 422
    THEN IF resp.detail = "Name has already been taken"
         THEN <<log_report(org, "create_varset", None, None, "skipped")>>
         ELSE <<log_report(org, "create_varset", None, None, "error")>>
    ELSE <<log_report(org, "create_varset", None, None, "error")>>

\* add_variable without the return of a dry run
add_variable_always_sends(org, vid, var, dr, resp) ==
    Effect(
        <<Call("POST", "add_variable", var.key, 0, Outcome(resp, 201))>>,
        IF resp.exc
        THEN <<log_report(org, "add_variable", vid, None, "error")>>
        ELSE IF resp.status_code = 201
        THEN <<log_report(org, "add_variable", vid, var.key, "success")>>
        ELSE <<log_report(org, "add_variable", vid, var.key, "error")>>)

\* add_variable whose except clause only logs
add_variable_silent_except(org, vid, var, dr, resp) ==
    IF dr THEN Effect(<<>>, <<>>)
    ELSE Effect(
        <<Call("POST", "add_variable", var.key, 0, Outcome(resp, 201))>>,
        IF resp.exc
        THEN <<>>
        ELSE IF resp.status_code = 201
        THEN <<log_report(org, "add_variable", vid, var.key, "success")>>
        ELSE <<log_report(org, "add_variable", vid, var.key, "error")>>)

add_variable(org, vid, var, dr, resp) ==
    IF dr THEN Effect(<<>>, <<>>)
    ELSE Effect(
        <<Call("POST", "add_variable", var.key, 0, Outcome(resp, 201))>>,
        IF resp.exc
        THEN <<log_report(org, "add_variable", vid, None, "error")>>
        ELSE IF resp.status_code = 201
        THEN <<log_report(org, "add_variable", vid, var.key, "success")>>
        ELSE <<log_report(org, "add_variable", vid, var.key, "error")>>)

\* update_variable that records a success row for the request a dry run
\* does not send
update_variable_dry_run_row(org, vid, var_id, desired, dr, resp) ==
    IF dr
    THEN Effect(<<>>,
            <<log_report(org, "update_variable", vid, desired.key, "success")>>)
    ELSE Effect(
        <<Call("PATCH", "update_variable", desired.key, var_id, Outcome(resp, 200))>>,
        IF Raises(resp)
        THEN <<log_report(org, "update_variable", vid, desired.key, "error")>>
        ELSE IF resp.status_code = 200
        THEN <<log_report(org, "update_variable", vid, desired.key, "success")>>
        ELSE <<log_report(org, "update_variable", vid, desired.key, "error")>>)

update_variable(org, vid, var_id, desired, dr, resp) ==
    IF dr THEN Effect(<<>>, <<>>)
    ELSE Effect(
        <<Call("PATCH", "update_variable", desired.key, var_id, Outcome(resp, 200))>>,
        IF Raises(resp)
        THEN <<log_report(org, "update_variable", vid, desired.key, "error")>>
        ELSE IF resp.status_code = 200
        THEN <<log_report(org, "update_variable", vid, desired.key, "success")>>
        ELSE <<log_report(org, "update_variable", vid, desired.key, "error")>>)

delete_variable(org, vid, var_id, var_name, dr, resp) ==
    IF dr THEN Effect(<<>>, <<>>)
    ELSE Effect(
        <<Call("DELETE", "delete_variable", var_name, var_id, Outcome(resp, 204))>>,
        IF Raises(resp)
        THEN <<log_report(org, "delete_variable", vid, var_name, "error")>>
        ELSE IF resp.status_code = 204
        THEN <<log_report(org, "delete_variable", vid, var_name, "success")>>
        ELSE <<log_report(org, "delete_variable", vid, var_name, "error")>>)

\* delete_varset that deletes the variables of the varset one by one first
delete_varset_entries_first(org, vid, dr, resp) ==
    IF dr THEN Effect(<<>>, <<>>)
    ELSE Effect(
        <<Call("DELETE", "delete_variable", "", 0, Outcome(resp, 204)),
          Call("DELETE", "delete_varset", "", 0, Outcome(resp, 204))>>,
        IF resp.exc
        THEN <<log_report(org, "delete_variable", vid, None, "error")>>
        ELSE IF resp.status_code = 204
        THEN <<log_report(org, "delete_varset", vid, None, "success")>>
        ELSE <<log_report(org, "delete_variable", vid, None, "error")>>)

\* delete_global_priority_varset, once the varset is located
delete_varset(org, vid, dr, resp) ==
    IF dr THEN Effect(<<>>, <<>>)
    ELSE Effect(
        <<Call("DELETE", "delete_varset", "", 0, Outcome(resp, 204))>>,
        IF resp.exc
        THEN <<log_report(org, "delete_variable", vid, None, "error")>>
        ELSE IF resp.status_code = 204
        THEN <<log_report(org, "delete_varset", vid, None, "success")>>
        ELSE <<log_report(org, "delete_variable", vid, None, "error")>>)

\* not_found_rows that only logs the warning
not_found_rows_unrecorded(org, action) == <<>>

\* update_global_priority_varset and delete_global_priority_varset when the
\* locator returns None
not_found_rows(org, action) == <<log_report(org, action, None, None, "error")>>

\* the row of a variable that needs no update
skipped_rows(org, vid, current_attrs) ==
    <<log_report(org, "update_variable", vid, current_attrs.key, "skipped")>>

----------------------------------------------------------------------------
(* The server *)

StoredOf(id, pl) ==
    [id |-> id, key |-> pl.key, value |-> pl.value,
     description |-> pl.description, sensitive |-> pl.sensitive,
     category |-> pl.category, hcl |-> pl.hcl]

NewId(stored) == 1 + Max({0} \cup {stored[i].id : i \in 1..Len(stored)})

server_add(stored, pl) == Append(stored, StoredOf(NewId(stored), pl))

server_update(stored, id, pl) ==
    [i \in 1..Len(stored) |->
        IF stored[i].id = id THEN StoredOf(id, pl) ELSE stored[i]]

RECURSIVE server_delete(_, _)
server_delete(stored, id) ==
    IF stored = <<>> THEN <<>>
    ELSE IF Head(stored).id = id
         THEN server_delete(Tail(stored), id)
         ELSE <<Head(stored)>> \o server_delete(Tail(stored), id)

RECURSIVE drop_varset(_, _)
drop_varset(varsets, id) ==
    IF varsets = <<>> THEN <<>>
    ELSE IF Head(varsets).id = id
         THEN drop_varset(Tail(varsets), id)
         ELSE <<Head(varsets)>> \o drop_varset(Tail(varsets), id)

VarsetExists(varsets, id) == \E i \in 1..Len(varsets) : varsets[i].id = id
KeyStored(stored, key)    == \E i \in 1..Len(stored) : stored[i].key = key
IdStored(stored, id)      == \E i \in 1..Len(stored) : stored[i].id = id

\* the failures of each request: an exception of the session (connection
\* failure, retries exhausted), and the statuses that are not the success
CreateFailures == {Exc, Status(422), Status(404)}
AddFailures    == {Exc, Status(422), Status(404)}
PatchFailures  == {Exc, Status(404), Status(204)}
DeleteFailures == {Exc, Status(404), Status(200)}
DropFailures   == {Exc, Status(404), Status(500)}
FetchFailures  == {Exc, Status(404)}

\* the server carries a change out when a request was sent and it answers
\* with the success status
Applied(eff, resp, code) == eff.calls # <<>> /\ IsSuccess(resp, code)

----------------------------------------------------------------------------
(* Spec: process_org for one organization *)

\* list_orgs is not running
ListIdle ==
    /\ server_orgs = <<>>
    /\ page_size = 1
    /\ links_end = 1
    /\ orgs = <<>>
    /\ orgs_page = 1
    /\ list_pc = "idle"

\* no request is inside the Retry adapter
RetryIdle ==
    /\ req_method = "GET"
    /\ retry = [total |-> 0, connect |-> 0, read |-> 0]
    /\ sends = 0
    /\ reply = None
    /\ send_pc = "idle"

\* no thread is inside log_report
LockIdle ==
    /\ report_lock = 0
    /\ thread_pc = <<>>
    /\ recorded = <<>>

PoolIdle ==
    /\ organizations = <<org_name>>
    /\ max_workers = 1
    /\ confirm = "yes"
    /\ main_pc = "pool"
    /\ task = <<"running">>
    /\ started = <<1>>
    /\ ended = <<0>>
    /\ collected = {}
    /\ csv_rows = <<>>
    /\ flushes = 0

Init ==
    /\ mode \in {"create", "update", "delete"}
    /\ dry_run \in BOOLEAN
    /\ varset_vars \in (IF mode = "delete" THEN PlainDesiredLists ELSE DesiredLists)
    /\ remote_varsets \in VarsetLists
    /\ remote_vars \in (IF ~HasTarget(remote_varsets) THEN {<<>>}
                        ELSE IF mode = "update" THEN RemoteLists
                        ELSE PlainRemoteLists)
    /\ pc = "start"
    /\ varset_id = None
    /\ current_vars = <<>>
    /\ idx = 1
    /\ run = 1
    /\ calls = <<>>
    /\ actions = <<>>
    /\ prev_calls = <<>>
    /\ report_rows = <<>>
    /\ PoolIdle
    /\ ListIdle /\ RetryIdle /\ LockIdle

\* create_global_priority_varset with dry_run: the probe of the locator
CreateDryRun ==
    /\ pc = "start" /\ mode = "create" /\ dry_run
    /\ \E fail_at \in 0..NumPages(remote_varsets) :
          calls' = calls \o
              LocatorCalls(get_global_priority_varset_id(remote_varsets, fail_at))
    /\ pc' = "sleep"
    /\ UNCHANGED <<cfg_vars, remote_state, varset_id, current_vars, idx, run,
                   actions, prev_calls, report_rows, pool_vars, side_vars>>

\* create_global_priority_varset, live: the POST of the varset
CreateVarset ==
    /\ pc = "start" /\ mode = "create" /\ ~dry_run
    /\ \E resp \in Responses(201, ~NameTakenIn(remote_varsets),
                     CreateFailures \cup
                     (IF NameTakenIn(remote_varsets) THEN {NameTaken} ELSE {})) :
        /\ calls' = Append(calls,
                      Call("POST", "create_varset", "", 0, Outcome(resp, 201)))
        /\ report_rows' =
              report_rows \o create_varset_rows(org_name, resp, NewVarsetId)
        /\ IF IsSuccess(resp, 201)
           THEN /\ remote_varsets' =
                     Append(remote_varsets,
                            Varset(NewVarsetId, varset_name, TRUE, TRUE))
                /\ remote_vars' = <<>>
           ELSE UNCHANGED remote_state
        /\ IF created(resp)
           THEN /\ varset_id' = NewVarsetId
                /\ pc' = IF varset_vars = <<>> THEN "sleep" ELSE "create_adds"
           ELSE /\ varset_id' = varset_id
                /\ pc' = "sleep"
    /\ idx' = 1
    /\ UNCHANGED <<cfg_vars, current_vars, run, actions, prev_calls, pool_vars, side_vars>>

\* create_global_priority_varset, live: one turn of the loop over varset_vars
CreateAddVariable ==
    /\ pc = "create_adds"
    /\ LET var == varset_vars[idx] IN
       \E resp \in Responses(201,
                     VarsetExists(remote_varsets, varset_id)
                         /\ ~KeyStored(remote_vars, var.key),
                     AddFailures) :
          LET eff == add_variable(org_name, varset_id, var, dry_run, resp) IN
          /\ calls' = calls \o eff.calls
          /\ report_rows' = report_rows \o eff.rows
          /\ actions' = Append(actions, Action("add_variable", var.key))
          /\ remote_vars' = IF Applied(eff, resp, 201)
                            THEN server_add(remote_vars, payload(var))
                            ELSE remote_vars
    /\ idx' = idx + 1
    /\ pc' = IF idx = Len(varset_vars) THEN "sleep" ELSE "create_adds"
    /\ UNCHANGED <<cfg_vars, remote_varsets, varset_id, current_vars, run,
                   prev_calls, pool_vars, side_vars>>

\* update_global_priority_varset: the locator, and the row when it finds none
UpdateLocate ==
    /\ pc = "start" /\ mode = "update"
    /\ \E fail_at \in 0..NumPages(remote_varsets) :
          LET found == get_global_priority_varset_id(remote_varsets, fail_at) IN
          /\ calls' = calls \o LocatorCalls(found)
          /\ varset_id' = found.id
          /\ IF found.id = None
             THEN /\ report_rows' =
                        report_rows \o not_found_rows(org_name, "update_varset")
                  /\ pc' = "sleep"
             ELSE /\ report_rows' = report_rows
                  /\ pc' = "fetch"
    /\ UNCHANGED <<cfg_vars, remote_state, current_vars, idx, run, actions,
                   prev_calls, pool_vars, side_vars>>

\* the second loop nested in the first one: the deletes follow the first turn
AfterDiff_deletes_early(cv, i) ==
    IF i >= 1 /\ to_delete(cv, varset_vars) # <<>>
    THEN [pc |-> "deletes", idx |-> 1]
    ELSE IF i < Len(varset_vars) THEN [pc |-> "diff", idx |-> i + 1]
    ELSE [pc |-> "sleep", idx |-> 1]

\* the second loop in place of the first one when there is a key to delete
AfterDiff_deletes_first(cv, i) ==
    IF i = 0 /\ to_delete(cv, varset_vars) # <<>>
    THEN [pc |-> "deletes", idx |-> 1]
    ELSE IF i < Len(varset_vars) THEN [pc |-> "diff", idx |-> i + 1]
    ELSE IF to_delete(cv, varset_vars) = <<>> THEN [pc |-> "sleep", idx |-> 1]
    ELSE [pc |-> "deletes", idx |-> 1]

\* where check_diffs_variables_in_varset goes after turn i of its first loop
AfterDiff(cv, i) ==
    IF i < Len(varset_vars) THEN [pc |-> "diff", idx |-> i + 1]
    ELSE IF to_delete(cv, varset_vars) = <<>> THEN [pc |-> "sleep", idx |-> 1]
    ELSE [pc |-> "deletes", idx |-> 1]

\* get_variables_in_varset answering from the last listing it has seen
\* when the request fails
get_variables_in_varset_cached(stored, resp) == ApiList(stored)

\* get_variables_in_varset: data of the response, [] when the request fails
get_variables_in_varset(stored, resp) ==
    IF Raises(resp) THEN <<>> ELSE ApiList(stored)

\* current_vars = get_variables_in_varset(varset_id)
FetchVariables ==
    /\ pc = "fetch"
    /\ \E resp \in Responses(200, TRUE, FetchFailures) :
          /\ calls' = Append(calls,
                        Call("GET", "list_vars", "", 0, Outcome(resp, 200)))
          /\ current_vars' = get_variables_in_varset(remote_vars, resp)
    /\ pc' = AfterDiff(current_vars', 0).pc
    /\ idx' = 1
    /\ UNCHANGED <<cfg_vars, remote_state, varset_id, run, actions, prev_calls,
                   report_rows, pool_vars, side_vars>>

\* first loop, a key that is not in current_dict: add_variable
DiffAdd ==
    /\ pc = "diff"
    /\ LET desired == varset_vars[idx] IN
       /\ ~in_current(current_vars, desired.key)
       /\ \E resp \in Responses(201,
                        VarsetExists(remote_varsets, varset_id)
                            /\ ~KeyStored(remote_vars, desired.key),
                        AddFailures) :
             LET eff == add_variable(org_name, varset_id, desired, dry_run, resp) IN
             /\ calls' = calls \o eff.calls
             /\ report_rows' = report_rows \o eff.rows
             /\ actions' = Append(actions, Action("add_variable", desired.key))
             /\ remote_vars' = IF Applied(eff, resp, 201)
                               THEN server_add(remote_vars, payload(desired))
                               ELSE remote_vars
    /\ pc' = AfterDiff(current_vars, idx).pc
    /\ idx' = AfterDiff(current_vars, idx).idx
    /\ UNCHANGED <<cfg_vars, remote_varsets, varset_id, current_vars, run,
                   prev_calls, pool_vars, side_vars>>

\* first loop, a key of current_dict whose desired variable has no "value":
\* the comparison raises KeyError, which leaves process_org
DiffKeyError ==
    /\ pc = "diff"
    /\ LET desired == varset_vars[idx] IN
       /\ in_current(current_vars, desired.key)
       /\ raises_key_error(desired)
    /\ pc' = "raised"
    /\ UNCHANGED <<cfg_vars, remote_state, varset_id, current_vars, idx, run,
                   obs_vars, pool_vars, side_vars>>

\* first loop, a key of current_dict that needs an update: update_variable
DiffUpdate ==
    /\ pc = "diff"
    /\ LET desired == varset_vars[idx] IN
       /\ in_current(current_vars, desired.key)
       /\ ~raises_key_error(desired)
       /\ LET current == current_get(current_vars, desired.key) IN
          /\ needs_update(desired, current.attributes)
          /\ \E resp \in Responses(200, IdStored(remote_vars, current.id),
                           PatchFailures) :
                LET eff == update_variable(org_name, varset_id, current.id,
                                           desired, dry_run, resp) IN
                /\ calls' = calls \o eff.calls
                /\ report_rows' = report_rows \o eff.rows
                /\ actions' = Append(actions,
                                Action("update_variable", desired.key))
                /\ remote_vars' =
                      IF Applied(eff, resp, 200)
                      THEN server_update(remote_vars, current.id, payload(desired))
                      ELSE remote_vars
    /\ pc' = AfterDiff(current_vars, idx).pc
    /\ idx' = AfterDiff(current_vars, idx).idx
    /\ UNCHANGED <<cfg_vars, remote_varsets, varset_id, current_vars, run,
                   prev_calls, pool_vars, side_vars>>

\* first loop, a key of current_dict that needs no update: the skipped row
DiffSkip ==
    /\ pc = "diff"
    /\ LET desired == varset_vars[idx] IN
       /\ in_current(current_vars, desired.key)
       /\ ~raises_key_error(desired)
       /\ LET current == current_get(current_vars, desired.key) IN
          /\ ~needs_update(desired, current.attributes)
          /\ report_rows' = report_rows \o
                skipped_rows(org_name, varset_id, current.attributes)
    /\ pc' = AfterDiff(current_vars, idx).pc
    /\ idx' = AfterDiff(current_vars, idx).idx
    /\ UNCHANGED <<cfg_vars, remote_state, varset_id, current_vars, run, calls,
                   actions, prev_calls, pool_vars, side_vars>>

\* second loop: delete_variable for a key that is not in desired_dict
DeleteVariable ==
    /\ pc = "deletes"
    /\ LET keys == to_delete(current_vars, varset_vars)
           var  == current_get(current_vars, keys[idx])
       IN
       /\ \E resp \in Responses(204, IdStored(remote_vars, var.id),
                        DeleteFailures) :
             LET eff == delete_variable(org_name, varset_id, var.id, keys[idx],
                                        dry_run, resp) IN
             /\ calls' = calls \o eff.calls
             /\ report_rows' = report_rows \o eff.rows
             /\ actions' = Append(actions, Action("delete_variable", keys[idx]))
             /\ remote_vars' = IF Applied(eff, resp, 204)
                               THEN server_delete(remote_vars, var.id)
                               ELSE remote_vars
       /\ pc' = IF idx = Len(keys) THEN "sleep" ELSE "deletes"
    /\ idx' = idx + 1
    /\ UNCHANGED <<cfg_vars, remote_varsets, varset_id, current_vars, run,
                   prev_calls, pool_vars, side_vars>>

\* delete_global_priority_varset: the locator, the row when it finds none,
\* and the return of a dry run
DeleteLocate ==
    /\ pc = "start" /\ mode = "delete"
    /\ \E fail_at \in 0..NumPages(remote_varsets) :
          LET found == get_global_priority_varset_id(remote_varsets, fail_at) IN
          /\ calls' = calls \o LocatorCalls(found)
          /\ varset_id' = found.id
          /\ IF found.id = None
             THEN /\ report_rows' =
                        report_rows \o not_found_rows(org_name, "delete_varset")
                  /\ pc' = "sleep"
             ELSE /\ report_rows' = report_rows
                  /\ pc' = "delete_request"
    /\ UNCHANGED <<cfg_vars, remote_state, current_vars, idx, run, actions,
                   prev_calls, pool_vars, side_vars>>

\* delete_global_priority_varset: the DELETE of the varset
DeleteVarset ==
    /\ pc = "delete_request"
    /\ \E resp \in Responses(204, VarsetExists(remote_varsets, varset_id),
                     DropFailures) :
          LET eff == delete_varset(org_name, varset_id, dry_run, resp) IN
          /\ calls' = calls \o eff.calls
          /\ report_rows' = report_rows \o eff.rows
          /\ IF Applied(eff, resp, 204)
             THEN /\ remote_varsets' = drop_varset(remote_varsets, varset_id)
                  /\ remote_vars' = <<>>
             ELSE UNCHANGED remote_state
    /\ pc' = "sleep"
    /\ UNCHANGED <<cfg_vars, varset_id, current_vars, idx, run, actions,
                   prev_calls, pool_vars, side_vars>>

\* process_org: time.sleep(0.5) and the return
Sleep ==
    /\ pc = "sleep"
    /\ pc' = "done"
    /\ UNCHANGED <<cfg_vars, remote_state, varset_id, current_vars, idx, run,
                   obs_vars, pool_vars, side_vars>>

AllOk(cs) == \A i \in 1..Len(cs) : cs[i].outcome = "ok"

\* The script is run again in update mode, with the same configuration, after
\* a live run that returned and whose requests all succeeded (a dry run
\* leaves the remote state as it found it: the run after it is a first run).
Rerun ==
    /\ pc = "done" /\ mode = "update" /\ ~dry_run /\ run < MaxRuns
    /\ AllOk(calls)
    /\ run' = run + 1
    /\ prev_calls' = calls
    /\ pc' = "start"
    /\ varset_id' = None
    /\ current_vars' = <<>>
    /\ idx' = 1
    /\ calls' = <<>>
    /\ actions' = <<>>
    /\ report_rows' = <<>>
    /\ UNCHANGED <<cfg_vars, remote_state, pool_vars, side_vars>>

Next ==
    \/ CreateDryRun
    \/ CreateVarset
    \/ CreateAddVariable
    \/ UpdateLocate
    \/ FetchVariables
    \/ DiffAdd
    \/ DiffKeyError
    \/ DiffUpdate
    \/ DiffSkip
    \/ DeleteVariable
    \/ DeleteLocate
    \/ DeleteVarset
    \/ Sleep
    \/ Rerun

Spec == Init /\ [][Next]_vars

----------------------------------------------------------------------------
(* SpecPool: the __main__ block, from the confirmation to the report *)

OrgNames == <<"org1", "org2", "org3", "org4", "org5", "org6">>

\* the answers typed at the confirmation prompt
Answers == {"yes", " YES ", "y", ""}

\* confirm.strip().lower()
strip_lower(answer) ==
    CASE answer = "yes"   -> "yes"
      [] answer = " YES " -> "yes"
      [] answer = "y"     -> "y"
      [] answer = ""      -> ""

\* a test that aborts only on the answer "no"
aborted_on_no(answer) == strip_lower(answer) = "no"

\* the test that aborts a live delete run
aborted_by_user(answer) == strip_lower(answer) # "yes"

TaskIdle ==
    /\ remote_varsets = <<>>
    /\ remote_vars = <<>>
    /\ varset_vars = <<>>
    /\ pc = "pool"
    /\ varset_id = None
    /\ current_vars = <<>>
    /\ idx = 1
    /\ run = 1
    /\ calls = <<>>
    /\ actions = <<>>
    /\ prev_calls = <<>>

InitPool ==
    /\ mode \in {"create", "update", "delete"}
    /\ dry_run \in BOOLEAN
    /\ \E n \in 0..MaxOrgs : organizations = SubSeq(OrgNames, 1, n)
    /\ max_workers \in 1..MaxWorkers
    /\ confirm = ""
    /\ main_pc = "confirm"
    /\ task = [i \in 1..Len(organizations) |-> "pending"]
    /\ started = [i \in 1..Len(organizations) |-> 0]
    /\ ended = [i \in 1..Len(organizations) |-> 0]
    /\ collected = {}
    /\ csv_rows = <<>>
    /\ flushes = 0
    /\ report_rows = <<>>
    /\ TaskIdle
    /\ ListIdle /\ RetryIdle /\ LockIdle

pool_frame == <<remote_state, varset_vars, task_vars, calls, actions, prev_calls>>

Tasks == 1..Len(organizations)

Running == {i \in Tasks : task[i] = "running"}

\* A live delete run asks for the confirmation; anything but "yes" exits.
ConfirmDelete ==
    /\ main_pc = "confirm" /\ mode = "delete" /\ ~dry_run
    /\ \E answer \in Answers :
          /\ confirm' = answer
          /\ main_pc' = IF aborted_by_user(answer) THEN "exited" ELSE "pool"
    /\ UNCHANGED <<mode, dry_run, organizations, max_workers, task, started,
                   ended, collected, csv_rows, flushes, report_rows, pool_frame, side_vars>>

\* Every other run goes to the pool without a prompt.
NoConfirm ==
    /\ main_pc = "confirm" /\ ~(mode = "delete" /\ ~dry_run)
    /\ main_pc' = "pool"
    /\ UNCHANGED <<mode, dry_run, organizations, max_workers, confirm, task,
                   started, ended, collected, csv_rows, flushes, report_rows,
                   pool_frame, side_vars>>

\* A free worker of the executor takes the oldest submitted task.
StartTask(i) ==
    /\ main_pc = "pool"
    /\ task[i] = "pending"
    /\ \A j \in Tasks : j < i => task[j] # "pending"
    /\ Cardinality(Running) < max_workers
    /\ task' = [task EXCEPT ![i] = "running"]
    /\ started' = [started EXCEPT ![i] = @ + 1]
    /\ UNCHANGED <<mode, dry_run, organizations, max_workers, confirm, main_pc,
                   ended, collected, csv_rows, flushes, report_rows, pool_frame, side_vars>>

RowsOf(org) ==
    Cardinality({k \in 1..Len(report_rows) : report_rows[k].org = org})

\* process_org in a worker: an action of the task records a row
TaskRecord(i) ==
    /\ task[i] = "running"
    /\ RowsOf(organizations[i]) < MaxTaskRows
    /\ report_rows' = Append(report_rows,
          log_report(organizations[i], mode, None, None, "error"))
    /\ UNCHANGED <<mode, dry_run, organizations, max_workers, confirm, main_pc,
                   task, started, ended, collected, csv_rows, flushes,
                   pool_frame, side_vars>>

\* process_org returns
TaskReturn(i) ==
    /\ task[i] = "running"
    /\ task' = [task EXCEPT ![i] = "returned"]
    /\ ended' = [ended EXCEPT ![i] = @ + 1]
    /\ UNCHANGED <<mode, dry_run, organizations, max_workers, confirm, main_pc,
                   started, collected, csv_rows, flushes, report_rows,
                   pool_frame, side_vars>>

\* process_org raises an exception that none of its functions catches
TaskRaise(i) ==
    /\ task[i] = "running"
    /\ task' = [task EXCEPT ![i] = "raised"]
    /\ ended' = [ended EXCEPT ![i] = @ + 1]
    /\ UNCHANGED <<mode, dry_run, organizations, max_workers, confirm, main_pc,
                   started, collected, csv_rows, flushes, report_rows,
                   pool_frame, side_vars>>

\* the as_completed loop with the exception of future.result() raised again
after_result_reraise(outcome) ==
    IF outcome = "raised" THEN "crashed" ELSE "pool"

\* the as_completed loop: future.result() in try/except Exception, so the
\* loop goes on whatever the outcome of the future
after_result(outcome) == "pool"

\* as_completed yields a finished future
Collect(i) ==
    /\ main_pc = "pool"
    /\ task[i] \in {"returned", "raised"}
    /\ i \notin collected
    /\ collected' = collected \cup {i}
    /\ main_pc' = after_result(task[i])
    /\ UNCHANGED <<mode, dry_run, organizations, max_workers, confirm, task,
                   started, ended, csv_rows, flushes, report_rows, pool_frame, side_vars>>

\* the loop over the futures left at the first future that completed
first_completed(yielded, futures) == yielded # {} \/ futures = {}

\* the for loop over as_completed(futures) ends once every future was yielded
all_completed(yielded, futures) == yielded = futures

\* the with block ends once every future was yielded
ExitPool ==
    /\ main_pc = "pool"
    /\ all_completed(collected, Tasks)
    /\ main_pc' = "report"
    /\ UNCHANGED <<mode, dry_run, organizations, max_workers, confirm, task,
                   started, ended, collected, csv_rows, flushes, report_rows,
                   pool_frame, side_vars>>

\* the CSV report, written when report_rows is not empty
WriteReport ==
    /\ main_pc = "report"
    /\ IF report_rows # <<>>
       THEN csv_rows' = report_rows /\ flushes' = flushes + 1
       ELSE UNCHANGED <<csv_rows, flushes>>
    /\ main_pc' = "done"
    /\ UNCHANGED <<mode, dry_run, organizations, max_workers, confirm, task,
                   started, ended, collected, report_rows, pool_frame, side_vars>>

NextPool ==
    \/ ConfirmDelete
    \/ NoConfirm
    \/ \E i \in Tasks : StartTask(i)
    \/ \E i \in Tasks : TaskRecord(i)
    \/ \E i \in Tasks : TaskReturn(i)
    \/ \E i \in Tasks : TaskRaise(i)
    \/ \E i \in Tasks : Collect(i)
    \/ ExitPool
    \/ WriteReport

SpecPool == InitPool /\ [][NextPool]_vars

\* Threads are scheduled and a task's requests end (the retries are bounded),
\* so a step that stays possible is eventually taken.
SpecPoolFair == SpecPool /\ WF_vars(NextPool)

----------------------------------------------------------------------------
(* SpecList: list_orgs against the paginated listing of the organizations *)

\* most organizations of the instance
MaxListed == 4
\* largest page of the listing (list_orgs asks for pages of 100)
MaxPageSize == 3

\* the number of pages the server cuts n organizations into
ListPages(n, size) == (n + size - 1) \div size

\* [org["id"] for org in data["data"]] of page p
page_orgs_of(all, p, size) ==
    SubSeq(all, (p - 1) * size + 1, Min({p * size, Len(all)}))

\* data.get("links", {}).get("next") of page p
has_next(p, last) == p < last

\* one pass of the while loop that tests the next link before it extends orgs
list_orgs_pass_tests_first(os, p, page, next) ==
    IF page = <<>> THEN [orgs |-> os, page_number |-> p, stop |-> TRUE]
    ELSE IF ~next THEN [orgs |-> os, page_number |-> p, stop |-> TRUE]
    ELSE [orgs |-> os \o page, page_number |-> p + 1, stop |-> FALSE]

\* one pass of the while loop, for a request that was answered: break on an
\* empty page, extend orgs, break when the page has no next link
list_orgs_pass(os, p, page, next) ==
    IF page = <<>> THEN [orgs |-> os, page_number |-> p, stop |-> TRUE]
    ELSE IF ~next THEN [orgs |-> os \o page, page_number |-> p, stop |-> TRUE]
    ELSE [orgs |-> os \o page, page_number |-> p + 1, stop |-> FALSE]

\* __main__ with neither --orgs nor config["organizations"]: the server
\* holds up to MaxListed organizations and gives a next link on every page
\* before page links_end, the last page at the latest.
InitList ==
    /\ mode = "create"
    /\ dry_run = FALSE
    /\ report_rows = <<>>
    /\ TaskIdle
    /\ organizations = <<>>
    /\ max_workers = 1
    /\ confirm = ""
    /\ main_pc = "list_orgs"
    /\ task = <<>>
    /\ started = <<>>
    /\ ended = <<>>
    /\ collected = {}
    /\ csv_rows = <<>>
    /\ flushes = 0
    /\ \E n \in 0..MaxListed : server_orgs = SubSeq(OrgNames, 1, n)
    /\ page_size \in 1..MaxPageSize
    /\ links_end \in 1..Max({1, ListPages(Len(server_orgs), page_size)})
    /\ orgs = <<>>
    /\ orgs_page = 1
    /\ list_pc = "loop"
    /\ RetryIdle /\ LockIdle

list_frame == <<cfg_vars, remote_state, task_vars, actions, prev_calls,
                report_rows, max_workers, confirm, task, started, ended,
                collected, csv_rows, flushes, server_orgs, page_size,
                links_end, retry_vars, lock_vars>>

\* one pass of the loop whose request is answered
ListPage ==
    /\ list_pc = "loop"
    /\ LET pass == list_orgs_pass(orgs, orgs_page,
                        page_orgs_of(server_orgs, orgs_page, page_size),
                        has_next(orgs_page, links_end))
       IN  /\ calls' = Append(calls,
                          Call("GET", "list_orgs", "", orgs_page, "ok"))
           /\ orgs' = pass.orgs
           /\ orgs_page' = pass.page_number
           /\ list_pc' = IF pass.stop THEN "return" ELSE "loop"
    /\ UNCHANGED <<organizations, main_pc, list_frame>>

\* one pass of the loop whose request raises RequestException: break
ListPageFails ==
    /\ list_pc = "loop"
    /\ calls' = Append(calls, Call("GET", "list_orgs", "", orgs_page, "failed"))
    /\ list_pc' = "return"
    /\ UNCHANGED <<organizations, main_pc, orgs, orgs_page, list_frame>>

\* return orgs, assigned to organizations
ListReturn ==
    /\ list_pc = "return"
    /\ organizations' = orgs
    /\ main_pc' = "listed"
    /\ list_pc' = "done"
    /\ UNCHANGED <<calls, orgs, orgs_page, list_frame>>

NextList == ListPage \/ ListPageFails \/ ListReturn

SpecList == InitList /\ [][NextList]_vars

----------------------------------------------------------------------------
(* SpecLocator: get_global_priority_varset_id over the varsets of an
   organization *)

\* most varsets of the organization
MaxVarsets == 5

VarsetIds ==
    <<"varset-1", "varset-2", "varset-3", "varset-4", "varset-5", "varset-6">>

\* the varset the locator looks for, and the ones that miss one of the three
\* tests
VarsetShapes ==
    {[name |-> varset_name, global |-> TRUE, priority |-> TRUE],
     [name |-> other_name, global |-> TRUE, priority |-> TRUE],
     [name |-> varset_name, global |-> FALSE, priority |-> TRUE],
     [name |-> varset_name, global |-> TRUE, priority |-> FALSE]}

\* the listings of up to MaxVarsets varsets, each with its own id
LocatorLists ==
    UNION {{[i \in 1..n |-> Varset(VarsetIds[i], sh[i].name, sh[i].global,
                                    sh[i].priority)] :
                sh \in [1..n -> VarsetShapes]} : n \in 0..MaxVarsets}

InitLocator ==
    /\ mode = "update"
    /\ dry_run = FALSE
    /\ varset_vars = <<>>
    /\ remote_varsets \in LocatorLists
    /\ remote_vars = <<>>
    /\ pc = "start"
    /\ varset_id = None
    /\ current_vars = <<>>
    /\ idx = 1
    /\ run = 1
    /\ calls = <<>>
    /\ actions = <<>>
    /\ prev_calls = <<>>
    /\ report_rows = <<>>
    /\ PoolIdle
    /\ ListIdle /\ RetryIdle /\ LockIdle

\* varset_id = get_global_priority_varset_id(org_name)
Locate ==
    /\ pc = "start"
    /\ \E fail_at \in 0..NumPages(remote_varsets) :
          LET found == get_global_priority_varset_id(remote_varsets, fail_at) IN
          /\ calls' = LocatorCalls(found)
          /\ varset_id' = found.id
    /\ pc' = "done"
    /\ UNCHANGED <<cfg_vars, remote_state, current_vars, idx, run, actions,
                   prev_calls, report_rows, pool_vars, side_vars>>

NextLocator == Locate

SpecLocator == InitLocator /\ [][NextLocator]_vars

----------------------------------------------------------------------------
(* SpecRetry: one request sent on the session of
   get_requests_session_with_retries, through the adapter's Retry *)

\* get_requests_session_with_retries(retries=6, ...)
retries == 6

\* status_forcelist=(429, 500, 502, 503, 504)
status_forcelist == {"429", "500", "502", "503", "504"}

\* Retry's allowed_methods, left at its default
allowed_methods == {"DELETE", "GET", "HEAD", "OPTIONS", "PUT", "TRACE"}

\* the methods of the script's requests
Methods == {"GET", "POST", "PATCH", "DELETE"}

ConnectError == "connect_error"
ReadError == "read_error"

\* what one send can come back with: a status, or a failure of the connection
Replies == {"200", "404"} \cup status_forcelist \cup {ConnectError, ReadError}

IsError(r) == r \in {ConnectError, ReadError}

\* Retry(...) built without total=retries: total stays at the default, 10
Retry_default_total(n) == [total |-> 10, connect |-> n, read |-> n]

\* Retry(total=retries, read=retries, connect=retries, ...)
new_retry(n) == [total |-> n, connect |-> n, read |-> n]

\* Retry.is_retry: a status of status_forcelist on an allowed method
is_retry(m, r) == m \in allowed_methods /\ r \in status_forcelist

\* Retry.increment raises a read error again on a method that is not allowed
reraised(m, r) == r = ReadError /\ m \notin allowed_methods

\* Retry.increment: one retry less in total and of the failure's kind
increment(rt, r) ==
    [total   |-> rt.total - 1,
     connect |-> IF r = ConnectError THEN rt.connect - 1 ELSE rt.connect,
     read    |-> IF r = ReadError THEN rt.read - 1 ELSE rt.read]

\* Retry.is_exhausted
is_exhausted(rt) == rt.total < 0 \/ rt.connect < 0 \/ rt.read < 0

InitRetry ==
    /\ mode = "create"
    /\ dry_run = FALSE
    /\ report_rows = <<>>
    /\ TaskIdle
    /\ PoolIdle
    /\ ListIdle /\ LockIdle
    /\ req_method \in Methods
    /\ retry = new_retry(retries)
    /\ sends = 0
    /\ reply = None
    /\ send_pc = "send"

retry_frame == <<cfg_vars, remote_state, task_vars, obs_vars, pool_vars,
                 list_vars, lock_vars, req_method>>

\* the request goes on the wire and comes back
Send ==
    /\ send_pc = "send"
    /\ sends' = sends + 1
    /\ reply' \in Replies
    /\ send_pc' = "replied"
    /\ UNCHANGED <<retry, retry_frame>>

\* a response that is not retried is returned to the caller
ReturnResponse ==
    /\ send_pc = "replied"
    /\ ~IsError(reply) /\ ~is_retry(req_method, reply)
    /\ send_pc' = "returned"
    /\ UNCHANGED <<retry, sends, reply, retry_frame>>

\* a response that is retried: sent again after the backoff, or, with the
\* retries exhausted, returned to the caller (raise_on_status=False)
RetryResponse ==
    /\ send_pc = "replied"
    /\ ~IsError(reply) /\ is_retry(req_method, reply)
    /\ retry' = increment(retry, reply)
    /\ send_pc' = IF is_exhausted(retry') THEN "returned" ELSE "send"
    /\ UNCHANGED <<sends, reply, retry_frame>>

\* a failure of the connection: raised again, or sent again after the
\* backoff, or, with the retries exhausted, raised as MaxRetryError
RetryError ==
    /\ send_pc = "replied"
    /\ IsError(reply)
    /\ IF reraised(req_method, reply)
       THEN retry' = retry /\ send_pc' = "raised"
       ELSE /\ retry' = increment(retry, reply)
            /\ send_pc' = IF is_exhausted(retry') THEN "raised" ELSE "send"
    /\ UNCHANGED <<sends, reply, retry_frame>>

NextRetry == Send \/ ReturnResponse \/ RetryResponse \/ RetryError

SpecRetry == InitRetry /\ [][NextRetry]_vars

----------------------------------------------------------------------------
(* SpecLock: the worker threads of the pool inside log_report *)

\* most calls of log_report one thread makes
MaxRecordCalls == 2

Threads == 1..Len(organizations)

\* a with statement that does not wait for the lock
lock_ignored(lock) == TRUE

\* with report_lock: the lock is taken when no thread holds it
lock_free(lock) == lock = 0

\* every task of the pool is running in a worker thread of its own
InitLock ==
    /\ mode = "update"
    /\ dry_run = FALSE
    /\ report_rows = <<>>
    /\ TaskIdle
    /\ \E n \in 0..MaxOrgs : organizations = SubSeq(OrgNames, 1, n)
    /\ max_workers = Max({1, Len(organizations)})
    /\ confirm = ""
    /\ main_pc = "pool"
    /\ task = [i \in Threads |-> "running"]
    /\ started = [i \in Threads |-> 1]
    /\ ended = [i \in Threads |-> 0]
    /\ collected = {}
    /\ csv_rows = <<>>
    /\ flushes = 0
    /\ ListIdle /\ RetryIdle
    /\ report_lock = 0
    /\ thread_pc = [i \in Threads |-> "working"]
    /\ recorded = [i \in Threads |-> 0]

lock_frame == <<cfg_vars, remote_state, task_vars, calls, actions, prev_calls,
                organizations, max_workers, confirm, main_pc, started,
                collected, csv_rows, flushes, list_vars, retry_vars>>

\* an action function of thread i calls log_report
CallLogReport(i) ==
    /\ thread_pc[i] = "working"
    /\ recorded[i] < MaxRecordCalls
    /\ thread_pc' = [thread_pc EXCEPT ![i] = "acquire"]
    /\ UNCHANGED <<report_lock, recorded, report_rows, task, ended, lock_frame>>

\* with report_lock: thread i enters the block
Acquire(i) ==
    /\ thread_pc[i] = "acquire"
    /\ lock_free(report_lock)
    /\ report_lock' = i
    /\ thread_pc' = [thread_pc EXCEPT ![i] = "append"]
    /\ UNCHANGED <<recorded, report_rows, task, ended, lock_frame>>

\* report_rows.append({...})
AppendRow(i) ==
    /\ thread_pc[i] = "append"
    /\ report_rows' = Append(report_rows,
          log_report(organizations[i], "update_variable", None, None, "success"))
    /\ thread_pc' = [thread_pc EXCEPT ![i] = "release"]
    /\ UNCHANGED <<report_lock, recorded, task, ended, lock_frame>>

\* the with block ends: the lock is released and log_report returns
Release(i) ==
    /\ thread_pc[i] = "release"
    /\ report_lock' = 0
    /\ recorded' = [recorded EXCEPT ![i] = @ + 1]
    /\ thread_pc' = [thread_pc EXCEPT ![i] = "working"]
    /\ UNCHANGED <<report_rows, task, ended, lock_frame>>

\* process_org returns in thread i
ThreadReturn(i) ==
    /\ thread_pc[i] = "working"
    /\ thread_pc' = [thread_pc EXCEPT ![i] = "returned"]
    /\ task' = [task EXCEPT ![i] = "returned"]
    /\ ended' = [ended EXCEPT ![i] = @ + 1]
    /\ UNCHANGED <<report_lock, recorded, report_rows, lock_frame>>

NextLock ==
    \/ \E i \in Threads : CallLogReport(i)
    \/ \E i \in Threads : Acquire(i)
    \/ \E i \in Threads : AppendRow(i)
    \/ \E i \in Threads : Release(i)
    \/ \E i \in Threads : ThreadReturn(i)

SpecLock == InitLock /\ [][NextLock]_vars

----------------------------------------------------------------------------
(* Properties of reconcile (update mode), checked under Spec *)

KeysOf(dv) == {dv[i].key : i \in 1..Len(dv)}
CurrentKeys(cv) == {cv[i].attributes.key : i \in 1..Len(cv)}
StoredKeys(stored) == {stored[i].key : i \in 1..Len(stored)}

\* the keys of the calls of one action function
ActionKeys(kind) ==
    {actions[i].key : i \in {j \in 1..Len(actions) : actions[j].kind = kind}}

\* the keys of the rows of one status
RowKeys(status) ==
    {report_rows[i].variable :
        i \in {j \in 1..Len(report_rows) : report_rows[j].status = status}}

\* the stored variable agrees with the desired one, defaults filled in
AgreesWith(e, d) ==
    /\ e.key = d.key
    /\ e.value = Get(d.value, DefaultOf("value"))
    /\ e.description = Get(d.description, DefaultOf("description"))
    /\ e.sensitive = Get(d.sensitive, DefaultOf("sensitive"))
    /\ e.category = Get(d.category, DefaultOf("category"))
    /\ e.hcl = Get(d.hcl, DefaultOf("hcl"))

Converged(stored, dv) ==
    /\ StoredKeys(stored) = KeysOf(dv)
    /\ \A i \in 1..Len(dv) : \A j \in 1..Len(stored) :
          stored[j].key = dv[i].key => AgreesWith(stored[j], dv[i])

\* a fetched variable differs from the desired one in one of the five
\* attributes, defaults filled in; an unreadable value differs from any value
Differs(d, attrs) ==
    \/ Present(Get(d.value, DefaultOf("value"))) # attrs.value
    \/ \E f \in Fields \ {"value"} :
          Get(d[f], DefaultOf(f)) # Get(attrs[f], DefaultOf(f))

\* reconcile has ended: process_org returned or raised
Ended == pc \in {"done", "raised"}

\* reconcile ran with the varset located and the variables fetched
Reconciled ==
    /\ mode = "update" /\ Ended /\ varset_id # None
    /\ \E i \in 1..Len(calls) :
          calls[i].kind = "list_vars" /\ calls[i].outcome = "ok"

\* C1 - Convergence: after a live reconcile in which the varset is located,
\* the fetch succeeds and every add, update and delete request succeeds, the
\* remote variables agree with the desired list: same keys, and for every
\* key the five attributes equal the default-filled desired ones.
C1_Convergence ==
    (Reconciled /\ ~dry_run /\ AllOk(calls))
        => Converged(remote_vars, varset_vars)

\* C2 - Reconciliation plan: the keys added are the desired keys that are not
\* current, the keys deleted the current keys that are not desired, the keys
\* updated the keys on both sides whose attributes differ, the keys reported
\* skipped the keys on both sides whose attributes are equal; the sets are
\* pairwise disjoint and cover every key of either side.
C2_Plan ==
    Reconciled =>
        LET D    == KeysOf(varset_vars)
            C    == CurrentKeys(current_vars)
            diff == {varset_vars[i].key :
                        i \in {j \in 1..Len(varset_vars) :
                                 /\ in_current(current_vars, varset_vars[j].key)
                                 /\ Differs(varset_vars[j],
                                        current_get(current_vars,
                                            varset_vars[j].key).attributes)}}
            adds == ActionKeys("add_variable")
            upds == ActionKeys("update_variable")
            dels == ActionKeys("delete_variable")
            skps == RowKeys("skipped")
        IN  /\ adds = D \ C
            /\ dels = C \ D
            /\ upds = diff
            /\ skps = (D \cap C) \ diff
            /\ adds \cap upds = {} /\ adds \cap dels = {} /\ upds \cap dels = {}
            /\ adds \cup upds \cup dels \cup skps = D \cup C

NoSensitive(dv) ==
    \A i \in 1..Len(dv) : ~Get(dv[i].sensitive, FALSE)

\* C3 - Idempotence: when reconcile runs a second time with the same desired
\* list after a run whose requests all succeeded, and no desired variable is
\* sensitive, the second run calls no add, update or delete and reports every
\* desired variable as skipped.
C3_Idempotent ==
    (Reconciled /\ ~dry_run /\ run = 2 /\ AllOk(prev_calls)
        /\ NoSensitive(varset_vars))
        => /\ actions = <<>>
           /\ report_rows =
                 [i \in 1..Len(varset_vars) |->
                     log_report(org_name, "update_variable", varset_id,
                                varset_vars[i].key, "skipped")]

----------------------------------------------------------------------------
(* Properties of the three modes, checked under Spec *)

Mutating(call) == call.method # "GET"

MutatingCalls == {i \in 1..Len(calls) : Mutating(calls[i])}

\* C4 - Dry run never mutates remote state: with dry_run set, in every mode,
\* no POST, PATCH or DELETE request is sent (only GET requests are), and no
\* step changes the remote varsets or variables.
C4_DryRunReadOnly ==
    /\ [](dry_run => MutatingCalls = {})
    /\ [][dry_run => remote_state' = remote_state]_vars

\* a dry-run reconcile that went through add, update or delete decisions
C4_Witness ==
    /\ dry_run /\ mode = "update" /\ pc = "done"
    /\ Len(actions) >= 2 /\ remote_vars # <<>>

\* the live create run whose POST of the varset was answered
CreateAnswered == mode = "create" /\ ~dry_run /\ Len(calls) >= 1

\* C6 - Create on success: when the create request returns 201, the first
\* row is the success row of create_varset and the requests that follow are
\* the add requests of the desired variables, one each, in list order; a
\* failed add does not stop the later ones.
C6_CreateAddsAll ==
    (CreateAnswered /\ calls[1].outcome = "ok") =>
        /\ Len(report_rows) >= 1
        /\ report_rows[1] =
              log_report(org_name, "create_varset", NewVarsetId, None, "success")
        /\ \A i \in 2..Len(report_rows) : report_rows[i].action # "create_varset"
        /\ Len(calls) <= 1 + Len(varset_vars)
        /\ \A i \in 2..Len(calls) :
              /\ calls[i].method = "POST"
              /\ calls[i].kind = "add_variable"
              /\ calls[i].key = varset_vars[i - 1].key
        /\ (pc \in {"sleep", "done"} => Len(calls) = 1 + Len(varset_vars))

\* a create run in which the first add failed and the second succeeded
C6_Witness ==
    /\ CreateAnswered /\ pc = "done" /\ Len(calls) = 3
    /\ calls[1].outcome = "ok"
    /\ calls[2].outcome # "ok"
    /\ calls[3].outcome = "ok"

\* C7 - Create on failure: when the create request does not return 201, no
\* add request is made and exactly one row, of create_varset, is recorded:
\* skipped for the "name already taken" conflict, error for any other status
\* or a request failure.
C7_CreateFailure ==
    (CreateAnswered /\ calls[1].outcome # "ok") =>
        /\ Len(calls) = 1
        /\ actions = <<>>
        /\ Len(report_rows) = 1
        /\ report_rows[1].action = "create_varset"
        /\ report_rows[1].status =
              IF calls[1].outcome = "conflict" THEN "skipped" ELSE "error"

\* a create run answered with the conflict, with variables to add
C7_Witness ==
    /\ CreateAnswered /\ pc = "done" /\ calls[1].outcome = "conflict"
    /\ varset_vars # <<>>

\* C8 - Update and delete need the varset: in update and delete mode, when the
\* locator returns None, exactly one row, of status error, is recorded, and
\* the only requests are the locator's listing requests.
C8_NotFound ==
    (mode \in {"update", "delete"} /\ pc \in {"sleep", "done"}
        /\ varset_id = None) =>
        /\ Len(report_rows) = 1
        /\ report_rows[1].status = "error"
        /\ report_rows[1].org = org_name
        /\ actions = <<>>
        /\ \A i \in 1..Len(calls) : calls[i].kind = "list_varsets"

\* an update run whose locator failed although the varset exists
C8_Witness ==
    /\ mode = "update" /\ pc = "done" /\ varset_id = None
    /\ HasTarget(remote_varsets) /\ varset_vars # <<>>

\* C9 - Delete mode: a live delete of a located varset sends exactly one
\* DELETE request, for the varset, and none for a variable.
C9_SingleDelete ==
    /\ (mode = "delete" => \A i \in 1..Len(calls) :
                              calls[i].kind # "delete_variable")
    /\ (mode = "delete" /\ ~dry_run /\ varset_id # None
            /\ pc \in {"sleep", "done"}) =>
          /\ Cardinality(MutatingCalls) = 1
          /\ \A i \in MutatingCalls :
                calls[i].method = "DELETE" /\ calls[i].kind = "delete_varset"

\* a live delete that removed a varset holding variables
C9_Witness ==
    /\ mode = "delete" /\ ~dry_run /\ pc = "done" /\ varset_id # None
    /\ calls[Len(calls)].outcome = "ok"
    /\ ~HasTarget(remote_varsets)

\* C10 - One row per live action: every step that sends a create, add, update
\* or delete request appends exactly one row to the report, of status
\* success, skipped or error, whatever the outcome of the request.
C10_OneRowPerAction ==
    [][(Len(calls') = Len(calls) + 1 /\ Mutating(calls'[Len(calls')])) =>
          /\ Len(report_rows') = Len(report_rows) + 1
          /\ SubSeq(report_rows', 1, Len(report_rows)) = report_rows
          /\ report_rows'[Len(report_rows')].status
                \in {"success", "skipped", "error"}]_vars

\* a live reconcile in which an add request raised and an update and a
\* delete request were answered
C10_Witness ==
    /\ ~dry_run /\ mode = "update" /\ pc = "done"
    /\ \E i \in MutatingCalls :
          calls[i].kind = "add_variable" /\ calls[i].outcome = "failed"
    /\ \E i \in 1..Len(report_rows) :
          report_rows[i].action = "add_variable" /\ report_rows[i].variable = ""
    /\ \E i \in MutatingCalls : calls[i].kind = "delete_variable"
    /\ Len(report_rows) = Cardinality(MutatingCalls)

----------------------------------------------------------------------------
(* Properties of the thread pool, checked under SpecPoolFair *)

AllOnce == \A i \in Tasks : started[i] = 1 /\ ended[i] = 1

\* C5 - Failure isolation: every organization's task is started once and ends
\* once, by a return or an exception, whatever the other tasks do; once the
\* pool is entered, the run reaches the report with every task ended.
C5_Isolation ==
    /\ [](\A i \in Tasks : started[i] <= 1 /\ ended[i] <= started[i])
    /\ [](main_pc \in {"report", "done"} => AllOnce)
    /\ [](main_pc = "pool" => <>(main_pc = "done" /\ AllOnce))

\* a finished run in which the first task raised and a later one returned
C5_Witness ==
    /\ main_pc = "done"
    /\ Len(organizations) >= 2
    /\ task[1] = "raised"
    /\ \E i \in Tasks : task[i] = "returned" /\ RowsOf(organizations[i]) >= 1

----------------------------------------------------------------------------
(* The report of a dry run, checked under Spec *)

\* the row recorded when update or delete mode finds no varset
IsNotFoundRow(row) ==
    /\ row.status = "error"
    /\ row.action \in {"update_varset", "delete_varset"}
    /\ row.varset_id = "" /\ row.variable = ""

\* the row recorded for a variable that needs no update
IsSkippedRow(row) ==
    /\ row.status = "skipped" /\ row.action = "update_variable"
    /\ row.variable \in KeysOf(varset_vars)

\* C11 as stated - Dry-run only logs: in a dry run of any mode no row is
\* recorded in the report.
C11_NoRowInDryRun == dry_run => report_rows = <<>>

\* C11 - Dry-run rows: in a dry run no action function records a row, so the
\* report holds no success row; the rows of a dry run are the error row of
\* update or delete mode that found no varset (then the only row) and the
\* skipped rows of the variables that need no update.
C11_DryRunRows ==
    dry_run =>
        /\ \A i \in 1..Len(report_rows) :
              IsNotFoundRow(report_rows[i]) \/ IsSkippedRow(report_rows[i])
        /\ (\E i \in 1..Len(report_rows) : IsNotFoundRow(report_rows[i]))
              => (Len(report_rows) = 1 /\ varset_id = None /\ mode # "create")
        /\ (mode = "create" => report_rows = <<>>)

\* a dry-run reconcile that would have updated one variable and left
\* another one alone
C11_Witness ==
    /\ dry_run /\ mode = "update" /\ pc = "done"
    /\ ActionKeys("update_variable") # {}
    /\ RowKeys("skipped") # {}

----------------------------------------------------------------------------
(* Properties of list_orgs, checked under SpecList *)

\* list_orgs has left its loop and none of its requests failed
Listed == list_pc \in {"return", "done"} /\ AllOk(calls)

\* ceil(N/P) for the listing of the server
Ceil == ListPages(Len(server_orgs), page_size)

\* C12 as stated - Pagination termination: with no request failure the
\* listing ends after exactly ceil(N/P) page requests with all N items in
\* order, or after fewer requests when a page reports no next link early.
C12_CeilRequests ==
    Listed =>
        \/ Len(calls) = Ceil /\ orgs = server_orgs
        \/ Len(calls) < Ceil /\ links_end < Ceil

\* C12 - Pagination termination: the listing never sends more than
\* max(1, ceil(N/P)) page requests, for pages 1, 2, ... in turn. With no
\* request failure and a next link on every page but the last, it ends after
\* exactly max(1, ceil(N/P)) requests (an empty collection takes one request,
\* not none) and returns all N items in order; when a page reports no next
\* link early, it ends with that page and returns the items of the pages
\* read, in order.
C12_Listing ==
    /\ Len(calls) <= Max({1, Ceil})
    /\ \A i \in 1..Len(calls) : calls[i].id = i
    /\ Listed =>
          IF links_end >= Ceil
          THEN Len(calls) = Max({1, Ceil}) /\ orgs = server_orgs
          ELSE /\ Len(calls) = links_end
               /\ orgs = SubSeq(server_orgs, 1, links_end * page_size)
    /\ (list_pc = "done" => organizations = orgs)

\* a listing of several pages, the last one not full, read to its end
C12_Witness ==
    /\ list_pc = "done" /\ AllOk(calls)
    /\ Len(calls) >= 2
    /\ Len(server_orgs) % page_size # 0
    /\ organizations = server_orgs

----------------------------------------------------------------------------
(* Properties of the locator, checked under SpecLocator *)

\* the positions of the varsets with the name, global and priority
TargetPositions ==
    {i \in 1..Len(remote_varsets) :
        /\ remote_varsets[i].name = varset_name
        /\ remote_varsets[i].global = TRUE
        /\ remote_varsets[i].priority = TRUE}

\* the page a position of the listing is served on
PageOf(i) == (i + PageLen - 1) \div PageLen

\* C13 - Locator correctness: when no page request fails and exactly one
\* varset has the name, global and priority, the locator returns its id,
\* whatever its position, and reads no page after the one that holds it;
\* when there is no varset or none passes the three tests, it returns None
\* after reading every page.
C13_Locator ==
    (pc = "done" /\ AllOk(calls)) =>
        /\ \A i \in TargetPositions :
              TargetPositions = {i} =>
                  /\ varset_id = remote_varsets[i].id
                  /\ Len(calls) = PageOf(i)
        /\ TargetPositions = {} =>
              /\ varset_id = None
              /\ Len(calls) = NumPages(remote_varsets)

\* the one matching varset found on the last of three pages, behind varsets
\* of the same name that are not global or not priority
C13_Witness ==
    /\ pc = "done" /\ AllOk(calls) /\ Len(calls) = 3
    /\ Cardinality(TargetPositions) = 1
    /\ varset_id = remote_varsets[Len(remote_varsets)].id
    /\ \E i \in 1..Len(remote_varsets) :
          remote_varsets[i].name = varset_name /\ ~remote_varsets[i].priority
    /\ \E i \in 1..Len(remote_varsets) :
          remote_varsets[i].name = varset_name /\ ~remote_varsets[i].global

----------------------------------------------------------------------------
(* Properties of the retries, checked under SpecRetry *)

\* C14 as stated - Bounded retry: a request is sent at most 6 times in
\* total, the first attempt included.
C14_SixSends == sends <= 6

\* C14 - Bounded retry: a request is sent at most 7 times in total, the
\* first attempt and at most 6 retries, whatever the server answers; the
\* call then ends, with the last response returned or the last failure
\* raised, and nothing is sent after it ended.
C14_Bounded ==
    /\ [](sends <= retries + 1)
    /\ [](send_pc = "returned" => ~IsError(reply))
    /\ [](send_pc = "raised" => IsError(reply))
    /\ [](sends = retries + 1 => send_pc \in {"replied", "returned", "raised"})
    /\ [][(send_pc \in {"returned", "raised"}) => (sends' = sends)]_vars

\* a GET answered 503 seven times: the seventh response is returned
C14_Witness ==
    /\ send_pc = "returned" /\ req_method = "GET"
    /\ sends = retries + 1
    /\ reply = "503"

----------------------------------------------------------------------------
(* Properties of the report file, checked under SpecPoolFair *)

AllEnded == \A i \in Tasks : task[i] \in {"returned", "raised"}

\* C15 as stated - Report flush ordering: a run that reaches its end has
\* written the report once, after every task ended, with every row in
\* insertion order.
C15_WrittenOnce ==
    main_pc = "done" =>
        /\ flushes = 1
        /\ csv_rows = report_rows
        /\ AllEnded

\* C15 - Report flush ordering: the report is written at most once, once
\* when at least one row was recorded and not at all when none was, only
\* after every task has ended (returned or raised); it holds every row
\* recorded during the run, in insertion order; rows are only ever appended,
\* and none is appended once the writing has begun.
C15_Flush ==
    /\ [](flushes <= 1)
    /\ [](flushes = 1 => main_pc = "done" /\ csv_rows # <<>>)
    /\ [](main_pc = "done" =>
            /\ (flushes = 1 <=> report_rows # <<>>)
            /\ csv_rows = report_rows)
    /\ [](main_pc \in {"report", "done"} => AllEnded)
    /\ [][(main_pc \in {"report", "done"}) => (report_rows' = report_rows)]_vars
    /\ [][Len(report_rows') >= Len(report_rows)
           /\ SubSeq(report_rows', 1, Len(report_rows)) = report_rows]_vars

\* a run that wrote the rows of two tasks, one of which raised
C15_Witness ==
    /\ main_pc = "done" /\ flushes = 1
    /\ Len(csv_rows) >= 2
    /\ \E i \in Tasks : task[i] = "raised" /\ RowsOf(organizations[i]) >= 1

----------------------------------------------------------------------------
(* Properties of log_report, checked under SpecLock *)

\* the threads inside the with block of log_report
InBlock == {i \in Threads : thread_pc[i] \in {"append", "release"}}

\* the calls of log_report whose append was done
Appended(i) == recorded[i] + (IF thread_pc[i] = "release" THEN 1 ELSE 0)

\* C16 - Thread-safe report: in every interleaving of the threads at most
\* one thread is inside the with block of log_report, the one that holds the
\* lock; the report holds exactly one row per call of log_report that has
\* appended (the completed calls, and the call of the thread past its append
\* in the block), so no append is lost or duplicated; a step appends at most
\* one row and changes none of the earlier rows.
C16_ThreadSafe ==
    /\ [](Cardinality(InBlock) <= 1)
    /\ [](\A i \in Threads : i \in InBlock <=> report_lock = i)
    /\ [](\A i \in Threads : RowsOf(organizations[i]) = Appended(i))
    /\ [](\A k \in 1..Len(report_rows) :
            \E i \in Threads : report_rows[k].org = organizations[i])
    /\ [][/\ Len(report_rows') \in {Len(report_rows), Len(report_rows) + 1}
           /\ SubSeq(report_rows', 1, Len(report_rows)) = report_rows]_vars

\* two threads that returned after interleaved calls of log_report, every
\* call with its row
C16_Witness ==
    /\ Len(organizations) >= 2
    /\ \A i \in Threads :
          thread_pc[i] = "returned" /\ recorded[i] = MaxRecordCalls
    /\ Len(report_rows) = Len(organizations) * MaxRecordCalls
    /\ report_rows[1].org # report_rows[2].org

----------------------------------------------------------------------------
(* Properties of the first loop of reconcile, checked under Spec *)

\* the desired variable with every omitted key set to its default
Filled(d) ==
    [key |-> d.key,
     value |-> Present(Get(d.value, DefaultOf("value"))),
     description |-> Present(Get(d.description, DefaultOf("description"))),
     sensitive |-> Present(Get(d.sensitive, DefaultOf("sensitive"))),
     category |-> Present(Get(d.category, DefaultOf("category"))),
     hcl |-> Present(Get(d.hcl, DefaultOf("hcl")))]

\* what the loop decides for a desired variable that omits nothing
DecisionFor(d, cv) ==
    IF ~in_current(cv, d.key) THEN "add_variable"
    ELSE IF needs_update(d, current_get(cv, d.key).attributes)
         THEN "update_variable"
         ELSE "skipped"

\* C17 - Default-filled comparison: every turn of the first loop decides for
\* the desired variable as it would for the same variable with its omitted
\* keys set to their defaults (add, update or the skipped row), and the loop
\* goes on: no turn ends reconcile with an exception.
C17_DefaultFilled ==
    [][pc = "diff" =>
          LET d    == varset_vars[idx]
              same == DecisionFor(Filled(d), current_vars)
          IN  /\ pc' # "raised"
              /\ same = "skipped" =>
                    /\ actions' = actions
                    /\ report_rows' = report_rows \o
                          <<log_report(org_name, "update_variable", varset_id,
                                       d.key, "skipped")>>
              /\ same # "skipped" =>
                    actions' = Append(actions, Action(same, d.key))]_vars

\* the desired variable of this turn is stored as a sensitive variable, and
\* its description, sensitive, category and hcl are the stored ones
SensitiveUnchanged ==
    /\ pc = "diff"
    /\ LET d == varset_vars[idx] IN
       /\ in_current(current_vars, d.key)
       /\ LET attrs == current_get(current_vars, d.key).attributes IN
          /\ attrs.sensitive = Present(TRUE)
          /\ \A f \in Fields \ {"value"} :
                Get(d[f], DefaultOf(f)) = Get(attrs[f], DefaultOf(f))

\* C18 as stated - Sensitive value drift is undetectable: for a key on both
\* sides stored as sensitive, with the other four attributes as desired, the
\* turn issues no update and records the skipped row, whatever the desired
\* value.
C18_SensitiveSkipped ==
    [][(SensitiveUnchanged /\ varset_vars[idx].value # Missing) =>
          /\ actions' = actions
          /\ report_rows' = report_rows \o
                <<log_report(org_name, "update_variable", varset_id,
                             varset_vars[idx].key, "skipped")>>]_vars

\* C18 - Sensitive values are always rewritten: for a key on both sides
\* stored as sensitive, with the other four attributes as desired, the turn
\* never records the skipped row; the unreadable value differs from every
\* desired value, so when the desired variable has a value the turn calls
\* update_variable for the key, and a live update that succeeds stores the
\* desired value.
C18_SensitiveRewritten ==
    [][SensitiveUnchanged =>
          LET d == varset_vars[idx] IN
          /\ report_rows' = report_rows
                \/ report_rows'[Len(report_rows')].status # "skipped"
          /\ d.value # Missing =>
                /\ actions' = Append(actions, Action("update_variable", d.key))
                /\ (~dry_run /\ calls'[Len(calls')].outcome = "ok") =>
                      \E i \in 1..Len(remote_vars') :
                          /\ remote_vars'[i].key = d.key
                          /\ remote_vars'[i].value = d.value[1]]_vars

\* a live reconcile that updated a variable stored as sensitive whose four
\* other attributes were the desired ones and whose stored value was not
C18_Witness ==
    /\ mode = "update" /\ ~dry_run /\ pc = "done" /\ run = 1 /\ AllOk(calls)
    /\ \E i \in 1..Len(varset_vars) :
          /\ varset_vars[i] = SecretDesired(varset_vars[i].key)
          /\ in_current(current_vars, varset_vars[i].key)
          /\ current_get(current_vars, varset_vars[i].key).attributes.sensitive
                = Present(TRUE)
          /\ varset_vars[i].key \in ActionKeys("update_variable")
          /\ \E j \in 1..Len(remote_vars) :
                /\ remote_vars[j].key = varset_vars[i].key
                /\ remote_vars[j].value = OtherOf("value")

----------------------------------------------------------------------------
(* Properties of the order of the actions of reconcile, checked under Spec *)

IsDelete(a) == a.kind = "delete_variable"
IsEntryAction(a) == a.kind \in {"add_variable", "update_variable"}

\* the desired keys handled so far by the first loop: added, updated or
\* reported skipped
Handled == ActionKeys("add_variable") \cup ActionKeys("update_variable")
               \cup RowKeys("skipped")

\* C19 - Delete-last policy: in one reconcile no add or update is issued
\* after a delete, and a delete is issued only when every desired variable
\* was handled (added, updated or reported skipped); a reconcile that an
\* exception stopped has issued no delete.
C19_DeleteLast ==
    mode = "update" =>
        /\ \A i, j \in 1..Len(actions) :
              (i < j /\ IsDelete(actions[i])) => IsDelete(actions[j])
        /\ (\E i \in 1..Len(actions) : IsDelete(actions[i]))
              => KeysOf(varset_vars) \subseteq Handled
        /\ pc = "raised" =>
              /\ \A i \in 1..Len(actions) : ~IsDelete(actions[i])
              /\ \A i \in 1..Len(calls) : calls[i].method # "DELETE"

\* a live reconcile that updated, added and then deleted
C19_Witness ==
    /\ mode = "update" /\ ~dry_run /\ pc = "done"
    /\ Len(actions) = 3
    /\ actions[1].kind = "update_variable"
    /\ actions[2].kind = "add_variable"
    /\ actions[3].kind = "delete_variable"
    /\ calls[Len(calls)].method = "DELETE"

\* the rank of an action in the order add, update, delete
Rank(a) ==
    CASE a.kind = "add_variable"    -> 1
      [] a.kind = "update_variable" -> 2
      [] a.kind = "delete_variable" -> 3

\* C20 as stated - Action order: every add is issued before any update and
\* every update before any delete.
C20_AddUpdateDelete ==
    \A i, j \in 1..Len(actions) : i < j => Rank(actions[i]) <= Rank(actions[j])

\* the keys of the adds and updates, in the order of the calls
EntryActionKeys ==
    LET s == SelectSeq(actions, IsEntryAction) IN [i \in 1..Len(s) |-> s[i].key]

NotSkipped(d) == d.key \notin RowKeys("skipped")

\* the desired keys that were not reported skipped, in list order
UnskippedKeys ==
    LET s == SelectSeq(varset_vars, NotSkipped) IN [i \in 1..Len(s) |-> s[i].key]

IsPrefix(s, t) == Len(s) <= Len(t) /\ SubSeq(t, 1, Len(s)) = s

\* C20 - Action order: the adds and updates of a reconcile are issued
\* sequentially in the order of the desired list, an add for a key that is
\* not current and an update for one that is, interleaved as the list has
\* them; the deletes are issued after all of them, in the order of the
\* fetched list.
C20_ListOrder ==
    mode = "update" =>
        /\ IsPrefix(EntryActionKeys, UnskippedKeys)
        /\ (pc \in {"deletes", "sleep", "done"} /\ varset_id # None)
              => EntryActionKeys = UnskippedKeys
        /\ \A i \in 1..Len(actions) :
              IsEntryAction(actions[i]) =>
                  (actions[i].kind = "update_variable"
                      <=> in_current(current_vars, actions[i].key))
        /\ LET dels == SelectSeq(actions, IsDelete)
               keys == to_delete(current_vars, varset_vars)
           IN  /\ Len(dels) <= Len(keys)
               /\ \A i \in 1..Len(dels) : dels[i].key = keys[i]
               /\ (dels # <<>> => SubSeq(actions, Len(actions) - Len(dels) + 1,
                                         Len(actions)) = dels)

\* a reconcile that updated the first desired variable before it added the
\* second one
C20_Witness ==
    /\ mode = "update" /\ pc = "done"
    /\ Len(actions) >= 2
    /\ actions[1].kind = "update_variable"
    /\ actions[2].kind = "add_variable"
    /\ actions[1].key = varset_vars[1].key
    /\ actions[2].key = varset_vars[2].key

----------------------------------------------------------------------------
(* Properties of the delete confirmation, checked under SpecPoolFair *)

LiveDelete == mode = "delete" /\ ~dry_run

SomeStarted == \E i \in Tasks : started[i] > 0

NoneTouched ==
    /\ \A i \in Tasks : started[i] = 0 /\ task[i] = "pending"
    /\ report_rows = <<>>
    /\ flushes = 0

\* C21 as stated - Delete confirmation gate: in a live delete run no task
\* is started unless the answer typed is "yes".
C21_LiteralYes == (LiveDelete /\ SomeStarted) => confirm = "yes"

\* C21 - Delete confirmation gate: in a live delete run no task is started
\* unless the answer, stripped of surrounding whitespace and lower-cased, is
\* "yes"; on any other answer the run exits with no task started, no row
\* recorded and no report written, and stays so; the prompt comes before
\* the pool, while every task is still pending, and a run leaves only from
\* the prompt.
C21_Gate ==
    /\ []((LiveDelete /\ SomeStarted) => strip_lower(confirm) = "yes")
    /\ [](main_pc = "exited" =>
            LiveDelete /\ strip_lower(confirm) # "yes" /\ NoneTouched)
    /\ [](main_pc = "confirm" => NoneTouched)
    /\ [][(main_pc' = "exited") => (main_pc \in {"confirm", "exited"})]_vars
    /\ [][(main_pc = "exited") => (main_pc' = "exited" /\ task' = task)]_vars

\* a live delete of two organizations refused with the answer "y"
C21_Witness ==
    /\ LiveDelete /\ main_pc = "exited"
    /\ confirm = "y"
    /\ Len(organizations) >= 2

----------------------------------------------------------------------------
(* Properties of the rows of the report, checked under Spec *)

Rows == {report_rows[i] : i \in 1..Len(report_rows)}

\* C22 - Action kind of delete-set records: every row recorded in delete
\* mode, on every outcome, carries the action delete_varset.
C22_DeleteVarsetKind ==
    mode = "delete" => \A row \in Rows : row.action = "delete_varset"

EntryActions == {"add_variable", "update_variable", "delete_variable"}

\* C23 - Entry key in entry-level records: in create and update mode every
\* row of add_variable, update_variable or delete_variable, the skipped row
\* included, names a variable: its variable field is not empty.
C23_EntryKey ==
    mode \in {"create", "update"} =>
        \A row \in Rows : row.action \in EntryActions => row.variable # ""

----------------------------------------------------------------------------
(* Properties of reconcile after a failed fetch, checked under Spec *)

\* the request of get_variables_in_varset failed in this run
FetchFailed ==
    \E i \in 1..Len(calls) :
        calls[i].kind = "list_vars" /\ calls[i].outcome # "ok"

\* C24 - Reconcile when the fetch fails: the current list is empty, every
\* action of the run is an add, and when the run ends the adds are one per
\* desired variable, in list order; no PATCH or DELETE is sent, and no step
\* of the run removes a variable from the varset.
C24_FetchFails ==
    /\ [](FetchFailed =>
            /\ current_vars = <<>>
            /\ \A i \in 1..Len(actions) :
                  /\ actions[i].kind = "add_variable"
                  /\ actions[i].key = varset_vars[i].key
            /\ \A i \in 1..Len(calls) : calls[i].method \in {"GET", "POST"}
            /\ pc \in {"sleep", "done"} => Len(actions) = Len(varset_vars))
    /\ [][FetchFailed => StoredKeys(remote_vars) \subseteq StoredKeys(remote_vars')]_vars

\* a live reconcile whose fetch failed, over a varset that holds a desired
\* key and a key that is not desired: two adds, both variables still stored
C24_Witness ==
    /\ mode = "update" /\ ~dry_run /\ pc = "done" /\ FetchFailed
    /\ Len(actions) = 2
    /\ KeysOf(varset_vars) \cap StoredKeys(remote_vars) # {}
    /\ StoredKeys(remote_vars) \ KeysOf(varset_vars) # {}
    /\ \E i \in 1..Len(calls) :
          calls[i].kind = "add_variable" /\ calls[i].outcome = "ok"

====
